---- MODULE Spec2Model ----
(***************************************************************************)
(* Query engine of ts-countries-list over its in-memory country table.     *)
(*                                                                         *)
(* Encoding of JavaScript values:                                          *)
(*   - a string the code inspects character by character (codes, phone     *)
(*     codes) is a sequence of one-character strings; a string the code    *)
(*     only compares is a TLA+ string;                                     *)
(*   - a value of type T | undefined is a set with at most one element:    *)
(*     {} is undefined, {v} is v.  Optional chaining a?.b is then the      *)
(*     image {x.b : x \in a}, and === on two optionals is set equality;    *)
(*   - a plain object used as a dictionary is a function on its keys;      *)
(*   - Array.prototype.filter is SelectSeq.                                *)
(***************************************************************************)
EXTENDS Integers, Sequences, FiniteSets, TLC

VARIABLES countries, regionMap, call

vars == <<countries, regionMap, call>>

(***************************************************************************)
(* Bounds                                                                  *)
(***************************************************************************)
MaxCountries == 3

(***************************************************************************)
(* String primitives                                                       *)
(***************************************************************************)
LowerToUpper ==
  [a |-> "A", b |-> "B", c |-> "C", d |-> "D", e |-> "E", f |-> "F",
   g |-> "G", h |-> "H", i |-> "I", j |-> "J", k |-> "K", l |-> "L",
   m |-> "M", n |-> "N", o |-> "O", p |-> "P", q |-> "Q", r |-> "R",
   s |-> "S", t |-> "T", u |-> "U", v |-> "V", w |-> "W", x |-> "X",
   y |-> "Y", z |-> "Z"]

toUpperCase(s) ==
  [i \in 1..Len(s) |-> IF s[i] \in DOMAIN LowerToUpper THEN LowerToUpper[s[i]] ELSE s[i]]

startsWith(s, ch) == Len(s) >= 1 /\ s[1] = ch

\* JavaScript truthiness of an optional string: undefined and "" are falsy.
Truthy(opt) == opt # {} /\ opt # {""}

\* The same for a string kept as a sequence of characters.
TruthyChars(opt) == opt # {} /\ opt # {<<>>}

(***************************************************************************)
(* Array primitives                                                        *)
(***************************************************************************)
Range(seq) == {seq[i] : i \in 1..Len(seq)}

includes(seq, v) == \E i \in 1..Len(seq) : seq[i] = v

\* Array.prototype.find, given the indices whose element satisfies the
\* predicate: the first such element, or undefined.
find(seq, hits) ==
  IF hits = {} THEN {}
  ELSE {seq[CHOOSE i \in hits : \A j \in hits : i <= j]}

\* The indices of seq.
Indices(seq) == 1..Len(seq)

(***************************************************************************)
(* The region -> subregion map (types.ts)                                  *)
(***************************************************************************)
regionSubregionMap ==
  [Americas   |-> <<"Northern America", "South America", "Central America", "Caribbean">>,
   Africa     |-> <<"Southern Africa", "Western Africa", "Northern Africa",
                    "Middle Africa", "Eastern Africa">>,
   Asia       |-> <<"Eastern Asia", "Southern Asia", "Western Asia",
                    "South-Eastern Asia", "Central Asia">>,
   Europe     |-> <<"Northern Europe", "Western Europe", "Eastern Europe", "Southern Europe">>,
   Oceania    |-> <<"Australia and New Zealand", "Melanesia", "Micronesia", "Polynesia">>,
   Antarctica |-> <<"Antarctica">>]

(***************************************************************************)
(* Country records.  The table itself (countries.ts) is data: the model    *)
(* ranges over tables built from the records below, which have the shape   *)
(* the query functions read (optional currency and phoneCode, a languages  *)
(* array that may hold zero, one or several entries).                      *)
(***************************************************************************)
CountryPool ==
  << [name |-> "United States", alpha2 |-> <<"U","S">>, alpha3 |-> <<"U","S","A">>,
      numeric |-> <<"8","4","0">>, region |-> "Americas",
      subregion |-> "Northern America", continent |-> "North America",
      currency |-> {[code |-> "USD", name |-> "United States dollar", symbol |-> "$"]},
      languages |-> <<"English">>, phoneCode |-> {<<"+","1">>}],
     [name |-> "Canada", alpha2 |-> <<"C","A">>, alpha3 |-> <<"C","A","N">>,
      numeric |-> <<"1","2","4">>, region |-> "Americas",
      subregion |-> "Northern America", continent |-> "North America",
      currency |-> {[code |-> "CAD", name |-> "Canadian dollar", symbol |-> "$"]},
      languages |-> <<"English", "French">>, phoneCode |-> {<<"+","1">>}],
     [name |-> "France", alpha2 |-> <<"F","R">>, alpha3 |-> <<"F","R","A">>,
      numeric |-> <<"2","5","0">>, region |-> "Europe",
      subregion |-> "Western Europe", continent |-> "Europe",
      currency |-> {[code |-> "EUR", name |-> "Euro", symbol |-> "E"]},
      languages |-> <<"French">>, phoneCode |-> {<<"+","3","3">>}],
     [name |-> "Belgium", alpha2 |-> <<"B","E">>, alpha3 |-> <<"B","E","L">>,
      numeric |-> <<"0","5","6">>, region |-> "Europe",
      subregion |-> "Western Europe", continent |-> "Europe",
      currency |-> {[code |-> "EUR", name |-> "Euro (Belgium)", symbol |-> "E"]},
      languages |-> <<"Dutch", "French", "German">>, phoneCode |-> {<<"+","3","2">>}],
     [name |-> "Antarctica", alpha2 |-> <<"A","Q">>, alpha3 |-> <<"A","T","A">>,
      numeric |-> <<"0","1","0">>, region |-> "Antarctica",
      subregion |-> "Antarctica", continent |-> "Antarctica",
      currency |-> {},
      languages |-> <<>>, phoneCode |-> {}] >>

\* Tables: sequences of pairwise distinct pool records, at most MaxCountries long.
Tables ==
  UNION { { [i \in 1..n |-> CountryPool[ix[i]]] :
              ix \in {f \in [1..n -> 1..Len(CountryPool)] :
                        \A a, b \in 1..n : a # b => f[a] # f[b]} } :
          n \in 0..MaxCountries }

NoCall == [op |-> "none", args |-> <<>>, status |-> "none", value |-> <<>>]

Returned(op, args, value) ==
  [op |-> op, args |-> args, status |-> "returned", value |-> value]

Threw(op, args) ==
  [op |-> op, args |-> args, status |-> "threw", value |-> <<>>]

(***************************************************************************)
(* Lookup functions                                                        *)
(***************************************************************************)
getCountryByAlpha2(code) ==
  find(countries, {i \in Indices(countries) : countries[i].alpha2 = code})

\* getCountryByCode without the toUpperCase of its input.
getCountryByCodeCaseSensitive(code) ==
  find(countries,
       {i \in Indices(countries) :
          LET c == countries[i]
          IN  c.alpha2 = code \/ c.alpha3 = code \/ c.numeric = code})

getCountryByCode(code) ==
  LET upperCode == toUpperCase(code)
  IN  find(countries,
           {i \in Indices(countries) :
              LET c == countries[i]
              IN  c.alpha2 = upperCode \/ c.alpha3 = upperCode \/ c.numeric = code})

getCountriesByPhoneCode(phoneCode) ==
  LET normalized == IF startsWith(phoneCode, "+") THEN phoneCode ELSE <<"+">> \o phoneCode
  IN  SelectSeq(countries, LAMBDA c : c.phoneCode = {normalized})

getCountriesByCurrency(code) ==
  SelectSeq(countries, LAMBDA c : {cur.code : cur \in c.currency} = {code})

getCountriesByContinent(continents) ==
  SelectSeq(countries, LAMBDA c : includes(continents, c.continent))

\* subRegion is optional: {} when the caller leaves it out.
getCountriesByRegion(region, subRegion) ==
  SelectSeq(countries,
         LAMBDA c : c.region = region /\ (~Truthy(subRegion) \/ {c.subregion} = subRegion))

getCountriesByLanguage(language) ==
  SelectSeq(countries, LAMBDA c : includes(c.languages, language))

(***************************************************************************)
(* Multi-criteria filter and projection.  A filter object is a record of   *)
(* six optionals; a criterion the caller leaves out is {}.                 *)
(***************************************************************************)
getCountriesByMultipleFilters(filters) ==
  SelectSeq(countries,
         LAMBDA c :
           /\ ~(Truthy(filters.region) /\ {c.region} # filters.region)
           /\ ~(Truthy(filters.subregion) /\ {c.subregion} # filters.subregion)
           /\ ~(Truthy(filters.continent) /\ {c.continent} # filters.continent)
           /\ ~(Truthy(filters.language)
                  /\ ~(\E l \in filters.language : includes(c.languages, l)))
           /\ ~(Truthy(filters.currency)
                  /\ {cur.code : cur \in c.currency} # filters.currency)
           /\ ~(TruthyChars(filters.phoneCode) /\ c.phoneCode # filters.phoneCode))

\* The object built by fields.forEach((f) => picked[f] = c[f]).
pick(c, fields) == [f \in Range(fields) |-> c[f]]

getCountriesByFields(filters, fields) ==
  LET kept ==
        SelectSeq(countries,
                  LAMBDA c :
                    /\ ~(Truthy(filters.region) /\ {c.region} # filters.region)
                    /\ ~(Truthy(filters.subregion) /\ {c.subregion} # filters.subregion)
                    /\ ~(Truthy(filters.continent) /\ {c.continent} # filters.continent)
                    /\ ~(Truthy(filters.language)
                           /\ ~(\E l \in filters.language : includes(c.languages, l)))
                    /\ ~(Truthy(filters.currency)
                           /\ {cur.code : cur \in c.currency} # filters.currency))
  IN  [i \in 1..Len(kept) |-> pick(kept[i], fields)]

(***************************************************************************)
(* Aggregation and metadata.  A function that can throw yields a           *)
(* completion: [threw |-> TRUE] or [threw |-> FALSE, value |-> v].         *)
(***************************************************************************)
Normal(v) == [threw |-> FALSE, value |-> v]

Abrupt == [threw |-> TRUE, value |-> <<>>]

\* Spreading undefined ([...undefined]) is a TypeError.
getSubregions(region) ==
  IF region \in DOMAIN regionMap THEN Normal(regionMap[region]) ELSE Abrupt

\* currencyMap is a Map keyed by currency code, kept here as the sequence of
\* its values in insertion order.  Reading .code of an undefined currency is
\* a TypeError, which ends the forEach and the call.
RECURSIVE allCurrenciesFrom(_, _)
allCurrenciesFrom(currencyMap, i) ==
  IF i > Len(countries) THEN Normal(currencyMap)
  ELSE LET currency == countries[i].currency
       IN  IF currency = {} THEN Abrupt
           ELSE LET cur == CHOOSE x \in currency : TRUE
                IN  allCurrenciesFrom(
                      IF \E k \in 1..Len(currencyMap) : currencyMap[k].code = cur.code
                        THEN currencyMap
                        ELSE Append(currencyMap, cur),
                      i + 1)

getAllCurrencies == allCurrenciesFrom(<<>>, 1)

getTotalCountries == Len(countries)

(***************************************************************************)
(* Grouping and counting: reduce over the table into a dictionary.         *)
(***************************************************************************)
\* if (!acc[key]) acc[key] = []; acc[key].push(c)
push(acc, key, c) ==
  IF key \in DOMAIN acc THEN [acc EXCEPT ![key] = Append(@, c)]
  ELSE acc @@ (key :> <<c>>)

RECURSIVE groupedByContinentFrom(_, _)
groupedByContinentFrom(acc, i) ==
  IF i > Len(countries) THEN acc
  ELSE groupedByContinentFrom(push(acc, countries[i].continent, countries[i]), i + 1)

getCountriesGroupedByContinent == groupedByContinentFrom(<<>>, 1)

\* pushLanguages that files a record under its first language only.
pushLanguagesFirstOnly(acc, c, j) ==
  IF Len(c.languages) = 0 THEN acc ELSE push(acc, c.languages[1], c)

RECURSIVE pushLanguages(_, _, _)
pushLanguages(acc, c, j) ==
  IF j > Len(c.languages) THEN acc
  ELSE pushLanguages(push(acc, c.languages[j], c), c, j + 1)

RECURSIVE groupedByLanguageFrom(_, _)
groupedByLanguageFrom(acc, i) ==
  IF i > Len(countries) THEN acc
  ELSE groupedByLanguageFrom(pushLanguages(acc, countries[i], 1), i + 1)

getCountriesGroupedByLanguage == groupedByLanguageFrom(<<>>, 1)

\* increment that starts every count again: acc[cont] = 1
incrementReset(acc, key) ==
  IF key \in DOMAIN acc THEN [acc EXCEPT ![key] = 1] ELSE acc @@ (key :> 1)

\* acc[cont] = (acc[cont] || 0) + 1
increment(acc, key) ==
  LET old == IF key \in DOMAIN acc /\ acc[key] # 0 THEN acc[key] ELSE 0
  IN  IF key \in DOMAIN acc THEN [acc EXCEPT ![key] = old + 1]
      ELSE acc @@ (key :> old + 1)

RECURSIVE countByContinentFrom(_, _)
countByContinentFrom(acc, i) ==
  IF i > Len(countries) THEN acc
  ELSE countByContinentFrom(increment(acc, countries[i].continent), i + 1)

getCountryCountByContinent == countByContinentFrom(<<>>, 1)

(***************************************************************************)
(* Validation and utilities                                                *)
(***************************************************************************)
isValidCountryCode(code) ==
  LET upperCode == toUpperCase(code)
  IN  \E i \in 1..Len(countries) :
        \/ countries[i].alpha2 = upperCode
        \/ countries[i].alpha3 = upperCode
        \/ countries[i].numeric = code

\* getPotentialNeighbors that does not exclude the country itself.
getPotentialNeighborsWithSelf(countryCode) ==
  LET country == getCountryByAlpha2(countryCode)
  IN  IF country = {} THEN <<>>
      ELSE SelectSeq(countries,
                  LAMBDA c : {c.subregion} = {x.subregion : x \in country})

getPotentialNeighbors(countryCode) ==
  LET country == getCountryByAlpha2(countryCode)
  IN  IF country = {} THEN <<>>
      ELSE SelectSeq(countries,
                  LAMBDA c : /\ {c.subregion} = {x.subregion : x \in country}
                             /\ {c.alpha2} # {x.alpha2 : x \in country})

\* compareCountries whose sameRegion compares a region with a continent.
compareCountriesRegionWithContinent(code1, code2) ==
  LET c1 == getCountryByAlpha2(code1)
      c2 == getCountryByAlpha2(code2)
      sharedLanguages ==
        IF c1 # {} /\ c2 # {}
          THEN LET r1 == CHOOSE x \in c1 : TRUE
                   r2 == CHOOSE x \in c2 : TRUE
               IN  SelectSeq(r1.languages, LAMBDA lang : includes(r2.languages, lang))
          ELSE <<>>
  IN  [country1 |-> c1,
       country2 |-> c2,
       sameCurrency |-> {cur.code : cur \in UNION {c.currency : c \in c1}}
                          = {cur.code : cur \in UNION {c.currency : c \in c2}},
       sameRegion |-> {c.region : c \in c1} = {c.continent : c \in c2},
       sameContinent |-> {c.continent : c \in c1} = {c.continent : c \in c2},
       sharedLanguages |-> sharedLanguages]

compareCountries(code1, code2) ==
  LET c1 == getCountryByAlpha2(code1)
      c2 == getCountryByAlpha2(code2)
      sharedLanguages ==
        IF c1 # {} /\ c2 # {}
          THEN LET r1 == CHOOSE x \in c1 : TRUE
                   r2 == CHOOSE x \in c2 : TRUE
               IN  SelectSeq(r1.languages, LAMBDA lang : includes(r2.languages, lang))
          ELSE <<>>
  IN  [country1 |-> c1,
       country2 |-> c2,
       sameCurrency |-> {cur.code : cur \in UNION {c.currency : c \in c1}}
                          = {cur.code : cur \in UNION {c.currency : c \in c2}},
       sameRegion |-> {c.region : c \in c1} = {c.region : c \in c2},
       sameContinent |-> {c.continent : c \in c1} = {c.continent : c \in c2},
       sharedLanguages |-> sharedLanguages]

(***************************************************************************)
(* The state machine: a caller makes one call at a time on the table and   *)
(* holds its outcome in `call` until it takes it.                          *)
(***************************************************************************)
Completed(op, args, completion) ==
  IF completion.threw THEN Threw(op, args) ELSE Returned(op, args, completion.value)

Init ==
  /\ countries \in Tables
  /\ regionMap = regionSubregionMap
  /\ call = NoCall

\* Inputs
CodeInputs ==
  { <<"U","S">>, <<"u","s">>, <<"u","s","a">>, <<"8","4","0">>, <<"F","r">>,
    <<"A","Q">>, <<"X","X">> }

Alpha2Inputs ==
  { <<"U","S">>, <<"C","A">>, <<"F","R">>, <<"B","E">>, <<"A","Q">>, <<"X","X">> }

PhoneInputs == { <<"+","1">>, <<"1">>, <<"3","3">>, <<"+","9">> }

RegionInputs == { "Americas", "Europe", "Antarctica", "Atlantis" }

FilterInputs ==
  [ region    : {{}, {"Americas"}, {"Europe"}},
    subregion : {{}, {"Western Europe"}},
    continent : {{}, {"North America"}},
    language  : {{}, {"English"}, {"French"}},
    currency  : {{}, {"EUR"}},
    phoneCode : {{}, {<<"+","1">>}, {<<"1">>}} ]

FieldInputs == { <<"name">>, <<"alpha2", "currency", "languages">> }

CallGetCountryByAlpha2 ==
  /\ call = NoCall
  /\ \E code \in Alpha2Inputs :
       call' = Returned("getCountryByAlpha2", <<code>>, getCountryByAlpha2(code))
  /\ UNCHANGED <<countries, regionMap>>

CallGetCountryByCode ==
  /\ call = NoCall
  /\ \E code \in CodeInputs :
       call' = Returned("getCountryByCode", <<code>>, getCountryByCode(code))
  /\ UNCHANGED <<countries, regionMap>>

CallIsValidCountryCode ==
  /\ call = NoCall
  /\ \E code \in CodeInputs :
       call' = Returned("isValidCountryCode", <<code>>, isValidCountryCode(code))
  /\ UNCHANGED <<countries, regionMap>>

CallGetCountriesByPhoneCode ==
  /\ call = NoCall
  /\ \E phoneCode \in PhoneInputs :
       call' = Returned("getCountriesByPhoneCode", <<phoneCode>>,
                        getCountriesByPhoneCode(phoneCode))
  /\ UNCHANGED <<countries, regionMap>>

CallGetCountriesByMultipleFilters ==
  /\ call = NoCall
  /\ \E filters \in FilterInputs :
       call' = Returned("getCountriesByMultipleFilters", <<filters>>,
                        getCountriesByMultipleFilters(filters))
  /\ UNCHANGED <<countries, regionMap>>

CallGetCountriesByFields ==
  /\ call = NoCall
  /\ \E filters \in FilterInputs, fields \in FieldInputs :
       call' = Returned("getCountriesByFields", <<filters, fields>>,
                        getCountriesByFields(filters, fields))
  /\ UNCHANGED <<countries, regionMap>>

\* getSubregions that reverses the map's own array in place
\* (regionSubregionMap[region].reverse()) instead of spreading a copy of it.
CallGetSubregionsReversingInPlace ==
  /\ call = NoCall
  /\ \E region \in RegionInputs :
       IF region \in DOMAIN regionMap
         THEN LET reversed == [k \in 1..Len(regionMap[region]) |->
                                 regionMap[region][Len(regionMap[region]) + 1 - k]]
              IN  /\ regionMap' = [regionMap EXCEPT ![region] = reversed]
                  /\ call' = Returned("getSubregions", <<region>>, reversed)
         ELSE /\ regionMap' = regionMap
              /\ call' = Threw("getSubregions", <<region>>)
  /\ UNCHANGED countries

CallGetSubregions ==
  /\ call = NoCall
  /\ \E region \in RegionInputs :
       call' = Completed("getSubregions", <<region>>, getSubregions(region))
  /\ UNCHANGED <<countries, regionMap>>

CallGetAllCurrencies ==
  /\ call = NoCall
  /\ call' = Completed("getAllCurrencies", <<>>, getAllCurrencies)
  /\ UNCHANGED <<countries, regionMap>>

CallGetCountriesGroupedByContinent ==
  /\ call = NoCall
  /\ call' = Returned("getCountriesGroupedByContinent", <<>>, getCountriesGroupedByContinent)
  /\ UNCHANGED <<countries, regionMap>>

CallGetCountriesGroupedByLanguage ==
  /\ call = NoCall
  /\ call' = Returned("getCountriesGroupedByLanguage", <<>>, getCountriesGroupedByLanguage)
  /\ UNCHANGED <<countries, regionMap>>

CallGetCountryCountByContinent ==
  /\ call = NoCall
  /\ call' = Returned("getCountryCountByContinent", <<>>, getCountryCountByContinent)
  /\ UNCHANGED <<countries, regionMap>>

CallGetTotalCountries ==
  /\ call = NoCall
  /\ call' = Returned("getTotalCountries", <<>>, getTotalCountries)
  /\ UNCHANGED <<countries, regionMap>>

CallGetPotentialNeighbors ==
  /\ call = NoCall
  /\ \E countryCode \in Alpha2Inputs :
       call' = Returned("getPotentialNeighbors", <<countryCode>>,
                        getPotentialNeighbors(countryCode))
  /\ UNCHANGED <<countries, regionMap>>

CallCompareCountries ==
  /\ call = NoCall
  /\ \E code1 \in Alpha2Inputs, code2 \in Alpha2Inputs :
       call' = Returned("compareCountries", <<code1, code2>>,
                        compareCountries(code1, code2))
  /\ UNCHANGED <<countries, regionMap>>

\* The caller takes the outcome; the next call can be made.
Return ==
  /\ call # NoCall
  /\ call' = NoCall
  /\ UNCHANGED <<countries, regionMap>>

Next ==
  \/ CallGetCountryByAlpha2
  \/ CallGetCountryByCode
  \/ CallIsValidCountryCode
  \/ CallGetCountriesByPhoneCode
  \/ CallGetCountriesByMultipleFilters
  \/ CallGetCountriesByFields
  \/ CallGetSubregions
  \/ CallGetAllCurrencies
  \/ CallGetCountriesGroupedByContinent
  \/ CallGetCountriesGroupedByLanguage
  \/ CallGetCountryCountByContinent
  \/ CallGetTotalCountries
  \/ CallGetPotentialNeighbors
  \/ CallCompareCountries
  \/ Return

Spec == Init /\ [][Next]_vars

(***************************************************************************)
(* Helpers for stating the properties                                      *)
(***************************************************************************)
\* The k-th smallest member of a finite set of indices.
Nth(I, k) == CHOOSE i \in I : Cardinality({j \in I : j <= i}) = k

\* The subsequence of seq at the indices I, in index order.
AtIndices(seq, I) == [k \in 1..Cardinality(I) |-> seq[Nth(I, k)]]

RECURSIVE SumOver(_, _)
SumOver(f, keys) ==
  IF keys = {} THEN 0
  ELSE LET k == CHOOSE x \in keys : TRUE
       IN  f[k] + SumOver(f, keys \ {k})

Found(code) == \E i \in 1..Len(countries) : countries[i].alpha2 = code

FirstWithAlpha2(code) ==
  countries[CHOOSE i \in 1..Len(countries) :
              /\ countries[i].alpha2 = code
              /\ \A j \in 1..(i - 1) : countries[j].alpha2 # code]

(***************************************************************************)
(* C1.  getCountriesByMultipleFilters returns exactly the table records,   *)
(* in table order, that pass every provided criterion, each criterion      *)
(* compared as its single-criterion function compares it; a phoneCode      *)
(* criterion selects what getCountriesByPhoneCode selects for that input   *)
(* (which prefixes "+"), and an omitted criterion restricts nothing.       *)
(***************************************************************************)
C1_MultipleFiltersAsSingleCriteria ==
  call.op = "getCountriesByMultipleFilters" =>
    LET filters == call.args[1]
    IN  /\ call.status = "returned"
        /\ call.value =
             SelectSeq(countries,
                    LAMBDA c :
                      /\ \A r \in filters.region : c \in Range(getCountriesByRegion(r, {}))
                      /\ \A sr \in filters.subregion : c.subregion = sr
                      /\ \A k \in filters.continent :
                           c \in Range(getCountriesByContinent(<<k>>))
                      /\ \A l \in filters.language : c \in Range(getCountriesByLanguage(l))
                      /\ \A cu \in filters.currency : c \in Range(getCountriesByCurrency(cu))
                      /\ \A p \in filters.phoneCode : c \in Range(getCountriesByPhoneCode(p)))

(***************************************************************************)
(* C2.  getCountriesByFields(filters, fields) returns one projected record *)
(* per record of getCountriesByMultipleFilters(filters), in the same       *)
(* order, for all six criteria; each projected record has exactly the      *)
(* requested fields as keys, holding the original record's values.         *)
(***************************************************************************)
C2_FieldsProjectsMultipleFilters ==
  call.op = "getCountriesByFields" =>
    LET filters == call.args[1]
        fields  == call.args[2]
        base    == getCountriesByMultipleFilters(filters)
    IN  /\ call.status = "returned"
        /\ Len(call.value) = Len(base)
        /\ \A i \in 1..Len(call.value) :
             /\ i <= Len(base)
             /\ DOMAIN call.value[i] = Range(fields)
             /\ \A f \in Range(fields) : call.value[i][f] = base[i][f]

(***************************************************************************)
(* C3.  getAllCurrencies never fails, also on a table with records that    *)
(* have no currency: it returns the currencies deduplicated by code, the   *)
(* first record's representation kept, in first-occurrence order; a record *)
(* without a currency contributes nothing.                                 *)
(***************************************************************************)
C3_AllCurrenciesNeverFails ==
  call.op = "getAllCurrencies" =>
    LET firsts == {i \in 1..Len(countries) :
                     /\ countries[i].currency # {}
                     /\ \A j \in 1..(i - 1) :
                          {x.code : x \in countries[j].currency}
                            # {x.code : x \in countries[i].currency}}
    IN  /\ call.status = "returned"
        /\ Len(call.value) = Cardinality(firsts)
        /\ \A k \in 1..Len(call.value) :
             {call.value[k]} = countries[Nth(firsts, k)].currency

(***************************************************************************)
(* C4.  getSubregions(region) returns the region's subregions in the map's *)
(* declared order when region is a key of regionSubregionMap, and an empty *)
(* sequence, without failing, when it is not.                              *)
(***************************************************************************)
C4_SubregionsOrEmpty ==
  call.op = "getSubregions" =>
    LET region == call.args[1]
    IN  /\ call.status = "returned"
        /\ call.value = IF region \in DOMAIN regionSubregionMap
                          THEN regionSubregionMap[region]
                          ELSE <<>>

(***************************************************************************)
(* C5.  compareCountries never throws, and reports sameCurrency = true     *)
(* only when both codes resolve to records, both records have a currency   *)
(* and the two currency codes are equal.                                   *)
(***************************************************************************)
C5_SameCurrencyOnlyWhenBothPresent ==
  call.op = "compareCountries" =>
    LET code1 == call.args[1]
        code2 == call.args[2]
    IN  /\ call.status = "returned"
        /\ call.value.sameCurrency =>
             /\ Found(code1)
             /\ Found(code2)
             /\ FirstWithAlpha2(code1).currency # {}
             /\ FirstWithAlpha2(code2).currency # {}
             /\ \A x \in FirstWithAlpha2(code1).currency,
                   y \in FirstWithAlpha2(code2).currency : x.code = y.code

(***************************************************************************)
(* C6.  For every alpha2 code c present in the table, compareCountries(c,  *)
(* c) yields sameCurrency, sameRegion and sameContinent all true and       *)
(* sharedLanguages equal to that country's languages, in their order.      *)
(***************************************************************************)
C6_CompareWithItself ==
  (/\ call.op = "compareCountries"
   /\ call.args[1] = call.args[2]
   /\ Found(call.args[1])) =>
    /\ call.status = "returned"
    /\ call.value.sameCurrency = TRUE
    /\ call.value.sameRegion = TRUE
    /\ call.value.sameContinent = TRUE
    /\ call.value.sharedLanguages = FirstWithAlpha2(call.args[1]).languages

\* A country with several languages compared with itself.
C6_Witness ==
  /\ call.op = "compareCountries"
  /\ call.args[1] = call.args[2]
  /\ Found(call.args[1])
  /\ Len(call.value.sharedLanguages) >= 2
  /\ call.value.sameCurrency

(***************************************************************************)
(* C7 as stated.  In the result of getCountriesGroupedByLanguage every     *)
(* record is in the group of every language of its languages sequence,     *)
(* and the group sizes sum to at least getTotalCountries().                *)
(***************************************************************************)
C7_GroupSizesAtLeastTotal ==
  call.op = "getCountriesGroupedByLanguage" =>
    /\ \A i \in 1..Len(countries) :
         \A l \in Range(countries[i].languages) :
           /\ l \in DOMAIN call.value
           /\ countries[i] \in Range(call.value[l])
    /\ SumOver([l \in DOMAIN call.value |-> Len(call.value[l])], DOMAIN call.value)
         >= getTotalCountries

(***************************************************************************)
(* C7 amended.  Every record is in the group of every language of its      *)
(* languages sequence, the groups are exactly the languages some record    *)
(* speaks, and the group sizes sum to the number of language entries over  *)
(* all records; so the sum is at least getTotalCountries() when every      *)
(* record has at least one language.                                       *)
(***************************************************************************)
C7_GroupSizesSumToLanguageEntries ==
  call.op = "getCountriesGroupedByLanguage" =>
    LET sizes == SumOver([l \in DOMAIN call.value |-> Len(call.value[l])],
                         DOMAIN call.value)
    IN  /\ call.status = "returned"
        /\ DOMAIN call.value = UNION {Range(countries[i].languages) : i \in 1..Len(countries)}
        /\ \A i \in 1..Len(countries) :
             \A l \in Range(countries[i].languages) :
               countries[i] \in Range(call.value[l])
        /\ sizes = SumOver([i \in 1..Len(countries) |-> Len(countries[i].languages)],
                           1..Len(countries))
        /\ (\A i \in 1..Len(countries) : Len(countries[i].languages) >= 1)
             => sizes >= getTotalCountries

\* A table with a record of two languages, present in both groups, next to a
\* record without languages.
C7_Witness ==
  /\ call.op = "getCountriesGroupedByLanguage"
  /\ \E i, j \in 1..Len(countries) :
       /\ Len(countries[i].languages) = 2
       /\ \A l \in Range(countries[i].languages) : countries[i] \in Range(call.value[l])
       /\ Len(countries[j].languages) = 0

(***************************************************************************)
(* C8.  getCountryByCode(code) returns the first table record whose alpha2 *)
(* or alpha3 equals the upper-cased input or whose numeric equals the      *)
(* input unchanged, and undefined when no record matches;                  *)
(* isValidCountryCode(code) is true exactly when getCountryByCode(code)    *)
(* returns a record.                                                       *)
(***************************************************************************)
C8_ByCodeAndValidity ==
  LET Matches(i, code) ==
        \/ countries[i].alpha2 = toUpperCase(code)
        \/ countries[i].alpha3 = toUpperCase(code)
        \/ countries[i].numeric = code
  IN  /\ call.op = "getCountryByCode" =>
           LET code == call.args[1]
           IN  /\ call.status = "returned"
               /\ Cardinality(call.value) <= 1
               /\ call.value = {} <=> \A i \in 1..Len(countries) : ~Matches(i, code)
               /\ \A r \in call.value :
                    \E i \in 1..Len(countries) :
                      /\ countries[i] = r
                      /\ Matches(i, code)
                      /\ \A j \in 1..(i - 1) : ~Matches(j, code)
               /\ isValidCountryCode(code) <=> call.value # {}
      /\ call.op = "isValidCountryCode" =>
           /\ call.status = "returned"
           /\ call.value <=> getCountryByCode(call.args[1]) # {}

\* A lower-case alpha3 input resolved to its record.
C8_Witness ==
  /\ call.op = "getCountryByCode"
  /\ call.args[1] = <<"u","s","a">>
  /\ call.value # {}
  /\ Len(countries) >= 2
  /\ countries[1].alpha2 # <<"U","S">>

(***************************************************************************)
(* C9.  getPotentialNeighbors(code) returns an empty result when no record *)
(* has alpha2 = code; otherwise exactly the records whose subregion equals *)
(* the resolved record's and whose alpha2 differs from code, so no         *)
(* returned record has the input's alpha2 and all share its subregion.     *)
(***************************************************************************)
C9_PotentialNeighbors ==
  call.op = "getPotentialNeighbors" =>
    LET code == call.args[1]
    IN  /\ call.status = "returned"
        /\ ~Found(code) => call.value = <<>>
        /\ Found(code) =>
             LET sub == FirstWithAlpha2(code).subregion
                 I == {i \in 1..Len(countries) :
                         countries[i].subregion = sub /\ countries[i].alpha2 # code}
             IN  /\ call.value = AtIndices(countries, I)
                 /\ \A k \in 1..Len(call.value) :
                      /\ call.value[k].alpha2 # code
                      /\ call.value[k].subregion = sub

\* A country with a neighbour in its subregion and a record outside it.
C9_Witness ==
  /\ call.op = "getPotentialNeighbors"
  /\ Found(call.args[1])
  /\ Len(call.value) = 1
  /\ Len(countries) = 3

(***************************************************************************)
(* C10.  The values of getCountryCountByContinent sum to exactly           *)
(* getTotalCountries(): every record is counted under exactly one          *)
(* continent key, its own.                                                 *)
(***************************************************************************)
C10_ContinentCountsSumToTotal ==
  call.op = "getCountryCountByContinent" =>
    /\ call.status = "returned"
    /\ SumOver(call.value, DOMAIN call.value) = getTotalCountries
    /\ DOMAIN call.value = {countries[i].continent : i \in 1..Len(countries)}
    /\ \A k \in DOMAIN call.value :
         call.value[k] = Cardinality({i \in 1..Len(countries) : countries[i].continent = k})

\* Two continents, one of them with two records.
C10_Witness ==
  /\ call.op = "getCountryCountByContinent"
  /\ Cardinality(DOMAIN call.value) = 2
  /\ \E k \in DOMAIN call.value : call.value[k] = 2

(***************************************************************************)
(* C11.  No query operation modifies the data table or the region ->       *)
(* subregion map: every step leaves both as they were, the map is the      *)
(* declared one, and making the call just completed a second time, with    *)
(* the same arguments, on the table and map it left behind gives an        *)
(* outcome identical to the first.                                         *)
(***************************************************************************)
\* The outcome of making the call held in `call` once more, now.
SecondCall ==
  LET op == call.op
      a  == call.args
  IN  CASE op = "getCountryByAlpha2" -> Returned(op, a, getCountryByAlpha2(a[1]))
        [] op = "getCountryByCode" -> Returned(op, a, getCountryByCode(a[1]))
        [] op = "isValidCountryCode" -> Returned(op, a, isValidCountryCode(a[1]))
        [] op = "getCountriesByPhoneCode" -> Returned(op, a, getCountriesByPhoneCode(a[1]))
        [] op = "getCountriesByMultipleFilters" ->
             Returned(op, a, getCountriesByMultipleFilters(a[1]))
        [] op = "getCountriesByFields" -> Returned(op, a, getCountriesByFields(a[1], a[2]))
        [] op = "getSubregions" -> Completed(op, a, getSubregions(a[1]))
        [] op = "getAllCurrencies" -> Completed(op, a, getAllCurrencies)
        [] op = "getCountriesGroupedByContinent" ->
             Returned(op, a, getCountriesGroupedByContinent)
        [] op = "getCountriesGroupedByLanguage" ->
             Returned(op, a, getCountriesGroupedByLanguage)
        [] op = "getCountryCountByContinent" -> Returned(op, a, getCountryCountByContinent)
        [] op = "getTotalCountries" -> Returned(op, a, getTotalCountries)
        [] op = "getPotentialNeighbors" -> Returned(op, a, getPotentialNeighbors(a[1]))
        [] op = "compareCountries" -> Returned(op, a, compareCountries(a[1], a[2]))
        [] OTHER -> NoCall

C11_QueriesLeaveTableAndMap ==
  [][/\ countries' = countries
     /\ regionMap' = regionMap
     /\ regionMap' = regionSubregionMap
     /\ SecondCall' = call']_vars

\* A lookup in the map has completed on a table of three records: the
\* caller holds the region's subregions and the map still has them.
C11_Witness ==
  /\ call.op = "getSubregions"
  /\ call.status = "returned"
  /\ Len(call.value) >= 2
  /\ call.value = regionMap[call.args[1]]
  /\ regionMap = regionSubregionMap
  /\ Len(countries) = 3
====
